---- MODULE Spec2Model ----
(***************************************************************************)
(* A model of ezrpc: the wire codec (format.ts), the box envelope          *)
(* (payload.ts), the client dispatcher (client.ts) and the server          *)
(* dispatcher (server.ts).                                                 *)
(*                                                                         *)
(* JavaScript values are records [t |-> tag, v |-> content]:               *)
(*   null, undef, bool, num, str (a sequence of characters), bytes (a      *)
(*   Uint8Array, a sequence of bytes), date (milliseconds, or InvalidTime  *)
(*   for an Invalid Date), arr (a sequence of values), obj (a set of       *)
(*   <<key, value>> pairs: the enumerable own properties), error (an Error *)
(*   object: a non-enumerable message and its enumerable fields), json (a  *)
(*   JSON text), and throw (a raised exception, the outcome of a call that *)
(*   does not return).                                                     *)
(* A character is [c |-> "x"]; a byte is [b |-> 0..255]; the bytes that    *)
(* libsodium produces (nonce, ciphertext, keys) are symbolic.              *)
(***************************************************************************)
EXTENDS Integers, Sequences, FiniteSets, TLC

\* ------------------------------------------------------------------ bounds
MaxDepth == 2        \* nesting depth of the values the codec is run on
MaxCalls == 2        \* client calls issued in one behaviour
MaxNonce == 4        \* nonces drawn from the random generator in one behaviour

\* ------------------------------------------------------- program constants
crypto_box_NONCEBYTES == 24
InvalidTime == -1    \* the time value of an Invalid Date (NaN)

\* ------------------------------------------------------------------ values
Null == [t |-> "null", v |-> 0]
Undefined == [t |-> "undef", v |-> 0]
None == [t |-> "none", v |-> 0]
Bool(b) == [t |-> "bool", v |-> b]
Num(n) == [t |-> "num", v |-> n]
Str(s) == [t |-> "str", v |-> s]
Bytes(s) == [t |-> "bytes", v |-> s]
Date(ms) == [t |-> "date", v |-> ms]
Arr(s) == [t |-> "arr", v |-> s]
Obj(ps) == [t |-> "obj", v |-> ps]
Error(msg, fields) == [t |-> "error", v |-> [message |-> msg, fields |-> fields]]
Throw(e) == [t |-> "throw", v |-> e]
IsThrow(x) == x.t = "throw"

\* A string literal, written as a tuple of one-character strings.
S(cs) == [i \in 1..Len(cs) |-> [c |-> cs[i]]]
IsChar(ch) == DOMAIN ch = {"c"}

startsWith(s, p) == Len(s) >= Len(p) /\ SubSeq(s, 1, Len(p)) = p
\* e.replace(p, "") where e starts with p: the first occurrence is the prefix
replacePrefix(s, p) == SubSeq(s, Len(p) + 1, Len(s))

HexTag == S(<<"h", "e", "x", "$">>)
DateTag == S(<<"d", "a", "t", "e", "$">>)

\* The errors the runtime and libsodium raise have no enumerable property.
SyntaxError == Error("Unexpected token", {})
TypeError == Error("Cannot read property of undefined", {})
RangeError == Error("Invalid time value", {})
SodiumError == Error("incorrect key pair for the given ciphertext", {})
HexError == Error("invalid input", {})
HeadersSentError == Error("Cannot set headers after they are sent to the client", {})

\* ----------------------------------------------------------- sodium.to_hex
HexDigits == <<"0", "1", "2", "3", "4", "5", "6", "7",
               "8", "9", "a", "b", "c", "d", "e", "f">>
IsHexDigit(ch) == IsChar(ch) /\ \E i \in 1..16 : HexDigits[i] = ch.c
HexVal(ch) == (CHOOSE i \in 1..16 : HexDigits[i] = ch.c) - 1
IsByte(e) == DOMAIN e = {"b"}

\* HexOf without the leading zero of a byte below 16.
HexOf_NoPad(e) ==
  IF IsByte(e)
    THEN IF e.b < 16 THEN <<[c |-> HexDigits[e.b + 1]]>>
         ELSE <<[c |-> HexDigits[(e.b \div 16) + 1]], [c |-> HexDigits[(e.b % 16) + 1]]>>
    ELSE <<[x |-> e]>>

\* Two lowercase hex digits per byte; a symbolic byte block e stays symbolic,
\* as the hex text [x |-> e] of that block.
HexOf(e) ==
  IF IsByte(e)
    THEN <<[c |-> HexDigits[(e.b \div 16) + 1]], [c |-> HexDigits[(e.b % 16) + 1]]>>
    ELSE <<[x |-> e]>>

RECURSIVE to_hex(_)
to_hex(b) == IF b = <<>> THEN <<>> ELSE HexOf(Head(b)) \o to_hex(Tail(b))

\* sodium.from_hex: throws on a character that is no hex digit and on an
\* odd number of digits.
RECURSIVE from_hex(_)
from_hex(s) ==
  IF s = <<>> THEN Bytes(<<>>)
  ELSE IF DOMAIN Head(s) = {"x"}
    THEN LET r == from_hex(Tail(s))
         IN IF IsThrow(r) THEN r ELSE Bytes(<<Head(s).x>> \o r.v)
  ELSE IF Len(s) >= 2 /\ IsHexDigit(s[1]) /\ IsHexDigit(s[2])
    THEN LET r == from_hex(SubSeq(s, 3, Len(s)))
         IN IF IsThrow(r) THEN r
            ELSE Bytes(<<[b |-> HexVal(s[1]) * 16 + HexVal(s[2])]>> \o r.v)
  ELSE Throw(HexError)

\* ------------------------------------------------- Date: ISO-8601 and back
\* Times are modelled within the first hour of the epoch.
Digit(n) == [c |-> HexDigits[n + 1]]
IsDigit(ch) == IsChar(ch) /\ \E i \in 1..10 : HexDigits[i] = ch.c
IsoPrefix == S(<<"1", "9", "7", "0", "-", "0", "1", "-", "0", "1", "T", "0", "0", ":">>)

\* Date.prototype.toISOString of a valid date: 1970-01-01T00:mm:ss.fffZ
toISOString(ms) ==
  LET min == ms \div 60000
      sec == (ms \div 1000) % 60
      frac == ms % 1000
  IN IsoPrefix \o <<Digit(min \div 10), Digit(min % 10), [c |-> ":"],
                    Digit(sec \div 10), Digit(sec % 10), [c |-> "."],
                    Digit(frac \div 100), Digit((frac \div 10) % 10),
                    Digit(frac % 10), [c |-> "Z"]>>

\* new Date(s): a string that is no timestamp gives an Invalid Date, it does
\* not throw.
newDate(s) ==
  IF /\ Len(s) = Len(IsoPrefix) + 10
     /\ startsWith(s, IsoPrefix)
     /\ \A i \in {15, 16, 18, 19, 21, 22, 23} : IsDigit(s[i])
     /\ s[17] = [c |-> ":"]
     /\ s[20] = [c |-> "."]
     /\ s[24] = [c |-> "Z"]
     /\ HexVal(s[15]) <= 5
     /\ HexVal(s[18]) <= 5
    THEN Date((HexVal(s[15]) * 10 + HexVal(s[16])) * 60000
              + (HexVal(s[18]) * 10 + HexVal(s[19])) * 1000
              + HexVal(s[21]) * 100 + HexVal(s[22]) * 10 + HexVal(s[23]))
    ELSE Date(InvalidTime)

\* --------------------------------------------------------------- format.ts
\* The first exception raised while a container's members are processed.
FirstThrowSeq(s) == s[CHOOSE i \in 1..Len(s) : IsThrow(s[i]) /\ \A j \in 1..(i - 1) : ~IsThrow(s[j])]
AnyThrowSeq(s) == \E i \in 1..Len(s) : IsThrow(s[i])
AnyThrowObj(ps) == \E p \in ps : IsThrow(p[2])
FirstThrowObj(ps) == (CHOOSE p \in ps : IsThrow(p[2]))[2]

\* The enumerable properties `for (const b in o)` visits.
Enumerable(o) == IF o.t = "error" THEN o.v.fields ELSE o.v

RECURSIVE autoencode(_)
autoencode(o) ==
  CASE o.t = "null" -> Null
    [] o.t = "bytes" -> Str(HexTag \o to_hex(o.v))
    [] o.t = "arr" ->
         LET t == [i \in 1..Len(o.v) |-> autoencode(o.v[i])]
         IN IF AnyThrowSeq(t) THEN FirstThrowSeq(t) ELSE Arr(t)
    [] o.t = "date" ->
         IF o.v = InvalidTime THEN Throw(RangeError)
         ELSE Str(DateTag \o toISOString(o.v))
    [] o.t \in {"obj", "error"} ->
         LET t == {<<p[1], autoencode(p[2])>> : p \in Enumerable(o)}
         IN IF AnyThrowObj(t) THEN FirstThrowObj(t) ELSE Obj(t)
    [] OTHER -> o

RECURSIVE autodecode(_)
autodecode(e) ==
  CASE e.t = "null" -> Null
    [] e.t = "str" /\ startsWith(e.v, HexTag) -> from_hex(replacePrefix(e.v, HexTag))
    [] e.t = "str" /\ ~startsWith(e.v, HexTag) /\ startsWith(e.v, DateTag) ->
         newDate(replacePrefix(e.v, DateTag))
    [] e.t = "arr" ->
         LET o == [i \in 1..Len(e.v) |-> autodecode(e.v[i])]
         IN IF AnyThrowSeq(o) THEN FirstThrowSeq(o) ELSE Arr(o)
    [] e.t \in {"obj", "error"} ->
         LET o == {<<p[1], autodecode(p[2])>> : p \in Enumerable(e)}
         IN IF AnyThrowObj(o) THEN FirstThrowObj(o) ELSE Obj(o)
    [] OTHER -> e

\* ---------------------------------------------------- JSON text, HTTP bodies
\* JSON.stringify: undefined has no text; an undefined property is dropped
\* and an undefined array element becomes null.  (It is only ever applied to
\* autoencode's output, which holds no buffer and no Date.)
RECURSIVE JsonNorm(_)
JsonNorm(o) ==
  CASE o.t = "arr" ->
         Arr([i \in 1..Len(o.v) |->
                IF o.v[i].t = "undef" THEN Null ELSE JsonNorm(o.v[i])])
    [] o.t \in {"obj", "error"} ->
         Obj({<<p[1], JsonNorm(p[2])>> : p \in {q \in Enumerable(o) : q[2].t # "undef"}})
    [] OTHER -> o

JSON_stringify(o) == IF o.t = "undef" THEN Undefined ELSE [t |-> "json", v |-> JsonNorm(o)]

\* JSON.parse: anything that is no JSON text raises a SyntaxError.
JSON_parse(s) == IF s.t = "json" THEN s.v ELSE Throw(SyntaxError)

\* --------------------------------------------------------------- libsodium
PublicKey(i) == Bytes(<<[pk |-> i]>>)
SecretKey(i) == Bytes(<<[sk |-> i]>>)
IsPublicKey(k) == k.t = "bytes" /\ Len(k.v) = 1 /\ DOMAIN k.v[1] = {"pk"}
IsSecretKey(k) == k.t = "bytes" /\ Len(k.v) = 1 /\ DOMAIN k.v[1] = {"sk"}

\* The key a box is computed under: the same for (pk_i, sk_j) and (pk_j, sk_i).
SharedKey(pk, sk) == {pk.v[1].pk, sk.v[1].sk}

\* sodium.randombytes_buf(len): rnd stands for the generator's output.
randombytes_buf(len, rnd) == [i \in 1..len |-> [n |-> rnd, i |-> i]]

\* sodium.crypto_box_easy: authenticator and ciphertext, one symbolic block
\* bound to the message, the nonce and the shared key.
crypto_box_easy(message, nonce, publicKey, privateKey) ==
  IF message.t \notin {"json", "str", "bytes"} \/ ~IsPublicKey(publicKey) \/ ~IsSecretKey(privateKey)
    THEN Throw(TypeError)
    ELSE Bytes(<<[c |-> [k |-> SharedKey(publicKey, privateKey), n |-> nonce,
                         m |-> message, ok |-> TRUE]]>>)

IsCipherBlock(e) == DOMAIN e = {"c"} /\ DOMAIN e.c = {"k", "n", "m", "ok"}

\* sodium.crypto_box_open_easy: throws unless the authenticator verifies under
\* this nonce and these keys.
crypto_box_open_easy(ciphertext, nonce, publicKey, privateKey) ==
  IF ~IsPublicKey(publicKey) \/ ~IsSecretKey(privateKey) THEN Throw(TypeError)
  ELSE IF Len(nonce) # crypto_box_NONCEBYTES THEN Throw(TypeError)
  ELSE IF /\ Len(ciphertext) = 1
          /\ IsCipherBlock(ciphertext[1])
          /\ ciphertext[1].c.ok
          /\ ciphertext[1].c.n = nonce
          /\ ciphertext[1].c.k = SharedKey(publicKey, privateKey)
    THEN ciphertext[1].c.m
    ELSE Throw(SodiumError)

\* -------------------------------------------------------------- payload.ts
\* encrypt that uses one fixed nonce instead of drawing a random one.
encrypt_FixedNonce(input, recipientKey, secretKey, rnd) ==
  LET o == autoencode(input)
      plaintext == JSON_stringify(o)
      outputNonce == randombytes_buf(crypto_box_NONCEBYTES, 0)
      outputCipher == crypto_box_easy(plaintext, outputNonce, recipientKey, secretKey)
  IN IF IsThrow(o) THEN o
     ELSE IF IsThrow(outputCipher) THEN outputCipher
     ELSE Bytes(outputNonce \o outputCipher.v)

encrypt(input, recipientKey, secretKey, rnd) ==
  LET o == autoencode(input)
      plaintext == JSON_stringify(o)
      outputNonce == randombytes_buf(crypto_box_NONCEBYTES, rnd)
      outputCipher == crypto_box_easy(plaintext, outputNonce, recipientKey, secretKey)
  IN IF IsThrow(o) THEN o
     ELSE IF IsThrow(outputCipher) THEN outputCipher
     ELSE Bytes(outputNonce \o outputCipher.v)

Min(a, b) == IF a < b THEN a ELSE b

\* decrypt that returns the parsed wire value without decoding it.
decrypt_NoDecode(payload, senderKey, secretKey) ==
  IF payload.t # "bytes" THEN Throw(TypeError)
  ELSE
    LET nonce == SubSeq(payload.v, 1, Min(crypto_box_NONCEBYTES, Len(payload.v)))
        ciphertext == SubSeq(payload.v, crypto_box_NONCEBYTES + 1, Len(payload.v))
        message == crypto_box_open_easy(ciphertext, nonce, senderKey, secretKey)
    IN IF IsThrow(message) THEN message ELSE JSON_parse(message)

\* decrypt that swallows the failure of crypto_box_open_easy and returns null.
decrypt_Swallow(payload, senderKey, secretKey) ==
  IF payload.t # "bytes" THEN Throw(TypeError)
  ELSE
    LET nonce == SubSeq(payload.v, 1, Min(crypto_box_NONCEBYTES, Len(payload.v)))
        ciphertext == SubSeq(payload.v, crypto_box_NONCEBYTES + 1, Len(payload.v))
        message == crypto_box_open_easy(ciphertext, nonce, senderKey, secretKey)
        e == JSON_parse(message)
    IN IF IsThrow(message) THEN Null
       ELSE IF IsThrow(e) THEN e
       ELSE autodecode(e)

decrypt(payload, senderKey, secretKey) ==
  IF payload.t # "bytes" THEN Throw(TypeError)
  ELSE
    LET nonce == SubSeq(payload.v, 1, Min(crypto_box_NONCEBYTES, Len(payload.v)))
        ciphertext == SubSeq(payload.v, crypto_box_NONCEBYTES + 1, Len(payload.v))
        message == crypto_box_open_easy(ciphertext, nonce, senderKey, secretKey)
        e == JSON_parse(message)
    IN IF IsThrow(message) THEN message
       ELSE IF IsThrow(e) THEN e
       ELSE autodecode(e)

\* ------------------------------------------------------------------- state
VARIABLES
  cval,        \* codec run: the value handed to autoencode
  cenc,        \* codec run: autoencode's result (None before it ran)
  cdec,        \* codec run: autodecode's result on cenc (None before it ran)
  kenv,        \* envelope run: what encrypt returned for cval (None before it ran)
  kseal,       \* envelope run: the key pairs it was sealed from and to
  kmod,        \* envelope run: what was done to the envelope in transit
  kopen,       \* envelope run: what decrypt returned (None before it ran)
  kwith,       \* envelope run: the key pairs decrypt was given
  userID,      \* RPCClient.userID (Undefined when unset)
  privateKey,  \* RPCClient.privateKey
  publicKey,   \* RPCClient.publicKey
  serverKey,   \* RPCClient.serverKey
  calls,       \* per call: the client's side of the exchange
  req,         \* per call: the HTTP request on the wire (None before it is sent)
  srv,         \* per call: the server's request handler (its locals and `res`)
  nonceCtr     \* the number of nonces drawn from the random generator

codecVars == <<cval, cenc, cdec>>
cryptoVars == <<kenv, kseal, kmod, kopen, kwith>>
sessionVars == <<userID, privateKey, publicKey, serverKey>>
rpcVars == <<userID, privateKey, publicKey, serverKey, calls, req, srv, nonceCtr>>
vars == <<cval, cenc, cdec, kenv, kseal, kmod, kopen, kwith, userID, privateKey, publicKey, serverKey, calls, req, srv, nonceCtr>>

Slots == 1..MaxCalls

\* ------------------------------------------------------ the test deployment
UserKey == "userKeys"       \* the key pair of user "test"
ServerKeyPair == "serverKeys"
OtherKey == "otherKeys"     \* a key pair the server knows nothing of
SecondKey == "secondKeys"   \* the key pair of user "bob"

TestId == Str(S(<<"t", "e", "s", "t">>))
OtherId == Str(S(<<"n", "o", "n", "e">>))
SecondId == Str(S(<<"b", "o", "b">>))
TestUser == [t |-> "user", v |-> [id |-> TestId, publicKey |-> PublicKey(UserKey)]]
SecondUser == [t |-> "user", v |-> [id |-> SecondId, publicKey |-> PublicKey(SecondKey)]]

serverPrivateKey == SecretKey(ServerKeyPair)
serverPublicKey == PublicKey(ServerKeyPair)

\* getUser is supplied by the application: it resolves a known identifier to
\* its record and rejects for any other.
getUser(id) ==
  IF id = TestId THEN TestUser
  ELSE IF id = SecondId THEN SecondUser
  ELSE Throw(Error("unknown user", {}))

\* What a registered handler does with its input is the application's: it
\* returns one of these values, or raises one of these errors.
HandlerOutputs ==
  { Bool(TRUE), Undefined, Str(HexTag \o S(<<"0", "a">>)),
    Obj({<<"key", Bytes(<<[b |-> 10], [b |-> 171]>>)>>}) }
HandlerErrors ==
  { Error("oh no", {}),
    Error("connect failed", {<<"code", Str(S(<<"E", "C", "O", "N", "N">>))>>}) }
HandlerOutcomes == HandlerOutputs \cup {Throw(e) : e \in HandlerErrors}

\* The inputs the client's methods are called with: no argument, a value,
\* and a value the codec cannot encode (an Invalid Date).
CallArgs == {Undefined, Bool(TRUE), Date(InvalidTime)}
SessionInputs ==
  { <<TestId, PublicKey(UserKey), SecretKey(UserKey), serverPublicKey>>,
    <<SecondId, PublicKey(SecondKey), SecretKey(SecondKey), serverPublicKey>>,
    <<OtherId, PublicKey(UserKey), SecretKey(UserKey), serverPublicKey>>,
    <<TestId, PublicKey(OtherKey), SecretKey(OtherKey), serverPublicKey>>,
    <<Undefined, PublicKey(UserKey), SecretKey(UserKey), serverPublicKey>> }

\* Bodies another HTTP client may post to a route.
RawBodies == {Str(S(<<"{">>)), [t |-> "json", v |-> Null]}

\* ------------------------------------------------------ HTTP, as Express does
Response(status, body) == [t |-> "response", v |-> [status |-> status, body |-> body]]
FnArgs(identity, input) == [t |-> "args", v |-> [identity |-> identity, input |-> input]]

statusText(status) ==
  CASE status = 200 -> "OK"
    [] status = 401 -> "Unauthorized"
    [] status = 429 -> "Too Many Requests"
    [] status = 500 -> "Internal Server Error"

\* o[k] in JavaScript: a TypeError on null and undefined, undefined when the
\* property is missing.
Get(o, k) ==
  IF o.t \in {"null", "undef"} THEN Throw(TypeError)
  ELSE IF o.t = "obj" /\ \E p \in o.v : p[1] = k
    THEN (CHOOSE p \in o.v : p[1] = k)[2]
    ELSE Undefined

NoSuchUser ==
  Obj({<<"message", Str(S(<<"N", "o", " ", "s", "u", "c", "h", " ", "u", "s", "e", "r",
                            " ", "f", "o", "u", "n", "d", ".">>))>>})

\* What express-rate-limit answers once a window's `max` is used up: status
\* 429 and its message as plain text, not JSON.
TooManyRequests == Response(429, Str(S(<<"T", "o", "o", " ", "m", "a", "n", "y">>)))

InitServerRequest ==
  [pc |-> "none", decodedBody |-> None, identity |-> Undefined,
   decryptedPayload |-> Undefined, res |-> None, writes |-> 0,
   fnArgs |-> None, fnOut |-> None, unhandled |-> None]

InitCall == [kind |-> "none", pc |-> "idle", args |-> None, result |-> None, sent |-> 0]

\* --------------------------------------------------------------- server.ts
\* `catch (error) { res.status(500).json(autoencode(error)); return; }`
\* res.json throws once a response has been sent; what the catch block throws
\* leaves the async handler as an unhandled rejection.
Catch500(s, error) ==
  LET body == autoencode(error)
  IN IF IsThrow(body) THEN [s EXCEPT !.pc = "done", !.unhandled = body.v]
     ELSE IF s.res # None
       THEN [s EXCEPT !.pc = "done", !.writes = @ + 1, !.unhandled = HeadersSentError]
     ELSE [s EXCEPT !.pc = "done", !.writes = @ + 1,
                    !.res = Response(500, JSON_stringify(body))]

\* `res.status(200).json(autoencode(val))` inside the try block
Try200(s, val) ==
  LET body == autoencode(val)
  IN IF IsThrow(body) THEN Catch500(s, body.v)
     ELSE IF s.res # None
       THEN Catch500([s EXCEPT !.writes = @ + 1], HeadersSentError)
     ELSE [s EXCEPT !.pc = "done", !.writes = @ + 1,
                    !.res = Response(200, JSON_stringify(body))]

\* `res.status(401).json(autoencode({ message: "No such user found." }))`:
\* the inner catch block, which does not return.
Write401(s) ==
  [s EXCEPT !.writes = @ + 1, !.res = Response(401, JSON_stringify(autoencode(NoSuchUser)))]

\* `await fn(...)`: the handler is entered and the request suspends.
Invoke(s, identity, input) ==
  [s EXCEPT !.pc = "awaitFn", !.identity = identity, !.decryptedPayload = input,
            !.fnArgs = FnArgs(identity, input)]

decodeBody(body) ==
  LET parsed == JSON_parse(body)
  IN IF IsThrow(parsed) THEN parsed ELSE autodecode(parsed)

\* handle: from the request's arrival to `await fn(decodedBody)`
handleArrive(s, body) ==
  LET decodedBody == decodeBody(body)
  IN IF IsThrow(decodedBody) THEN Catch500(s, decodedBody.v)
     ELSE Invoke([s EXCEPT !.decodedBody = decodedBody], Undefined, decodedBody)

\* handle: the handler's promise settles
handleSettle(s, out) ==
  IF IsThrow(out) THEN Catch500([s EXCEPT !.fnOut = out], out.v)
  ELSE Try200([s EXCEPT !.fnOut = out], out)

\* encryptedHandle: from the request's arrival to `await this.getUser(...)`
encryptedArrive(s, body) ==
  LET decodedBody == decodeBody(body)
  IN IF IsThrow(decodedBody) THEN Catch500(s, decodedBody.v)
     ELSE IF IsThrow(Get(decodedBody, "id"))
       THEN Invoke(Write401([s EXCEPT !.decodedBody = decodedBody]), Undefined, Undefined)
     ELSE [s EXCEPT !.pc = "awaitUser", !.decodedBody = decodedBody]

\* encryptedHandle that keeps the identity in a field of the server, which
\* the first request to resolve one fills for all.
encryptedLookup_SharedIdentity(s, user) ==
  IF IsThrow(user) THEN Invoke(Write401(s), Undefined, Undefined)
  ELSE LET decryptedPayload ==
             decrypt(Get(s.decodedBody, "payload"), user.v.publicKey, serverPrivateKey)
           identity == IF srv[1].identity # Undefined THEN srv[1].identity ELSE user
       IN IF IsThrow(decryptedPayload)
            THEN Invoke(Write401(s), identity, Undefined)
            ELSE Invoke(s, identity, decryptedPayload)

\* encryptedHandle: getUser settles with `user`; decrypt runs in the same try
\* block, and after the catch the handler is called whatever happened.
encryptedLookup(s, user) ==
  IF IsThrow(user) THEN Invoke(Write401(s), Undefined, Undefined)
  ELSE LET decryptedPayload ==
             decrypt(Get(s.decodedBody, "payload"), user.v.publicKey, serverPrivateKey)
       IN IF IsThrow(decryptedPayload)
            THEN Invoke(Write401(s), user, Undefined)
            ELSE Invoke(s, user, decryptedPayload)

\* encryptedHandle: whether sealing the output reaches the random generator
sealsOutput(s, out) ==
  /\ ~IsThrow(out)
  /\ s.identity # Undefined
  /\ ~IsThrow(autoencode(IF out = Undefined THEN Obj({}) ELSE out))

\* encryptedHandle that seals the output to the server's own public key
\* instead of the caller's.
encryptedSettle_WrongRecipient(s, out, rnd) ==
  IF IsThrow(out) THEN Catch500([s EXCEPT !.fnOut = out], out.v)
  ELSE
    LET output == IF out = Undefined THEN Obj({}) ELSE out
        encryptedOutput ==
          IF s.identity = Undefined THEN Throw(TypeError)
          ELSE encrypt(output, serverPublicKey, serverPrivateKey, rnd)
    IN IF IsThrow(encryptedOutput)
         THEN Catch500([s EXCEPT !.fnOut = out], encryptedOutput.v)
         ELSE Try200([s EXCEPT !.fnOut = out], encryptedOutput)

\* encryptedHandle that seals whatever the handler returned, undefined too.
encryptedSettle_NoPlaceholder(s, out, rnd) ==
  IF IsThrow(out) THEN Catch500([s EXCEPT !.fnOut = out], out.v)
  ELSE
    LET encryptedOutput ==
          IF s.identity = Undefined THEN Throw(TypeError)
          ELSE encrypt(out, s.identity.v.publicKey, serverPrivateKey, rnd)
    IN IF IsThrow(encryptedOutput)
         THEN Catch500([s EXCEPT !.fnOut = out], encryptedOutput.v)
         ELSE Try200([s EXCEPT !.fnOut = out], encryptedOutput)

\* encryptedHandle: the handler's promise settles
encryptedSettle(s, out, rnd) ==
  IF IsThrow(out) THEN Catch500([s EXCEPT !.fnOut = out], out.v)
  ELSE
    LET output == IF out = Undefined THEN Obj({}) ELSE out
        encryptedOutput ==
          IF s.identity = Undefined THEN Throw(TypeError)
          ELSE encrypt(output, s.identity.v.publicKey, serverPrivateKey, rnd)
    IN IF IsThrow(encryptedOutput)
         THEN Catch500([s EXCEPT !.fnOut = out], encryptedOutput.v)
         ELSE Try200([s EXCEPT !.fnOut = out], encryptedOutput)

\* --------------------------------------------------------------- client.ts
\* isloggedIn that forgets to look at userID.
isloggedIn_NoUserID ==
  /\ privateKey # Undefined
  /\ publicKey # Undefined
  /\ serverKey # Undefined

\* isloggedIn that is content with any one field.
isloggedIn_AnyField ==
  \/ userID # Undefined
  \/ privateKey # Undefined
  \/ publicKey # Undefined
  \/ serverKey # Undefined

isloggedIn ==
  /\ userID # Undefined
  /\ privateKey # Undefined
  /\ publicKey # Undefined
  /\ serverKey # Undefined

\* `return Promise.reject(new Error())`
NotAuthenticated == Error("", {})

Request(route, body) == [t |-> "request", v |-> [route |-> route, body |-> body]]

\* rawCall up to `await fetch(...)`: the call record once the request is out
rawCallSend(kind, args, data) ==
  LET encoded == autoencode(IF data = Undefined THEN Obj({}) ELSE data)
  IN IF IsThrow(encoded)
       THEN [kind |-> kind, pc |-> "rejected", args |-> args, result |-> encoded, sent |-> 0]
       ELSE [kind |-> kind, pc |-> "waiting", args |-> args, result |-> None, sent |-> 1]

rawCallBody(data) == JSON_stringify(autoencode(IF data = Undefined THEN Obj({}) ELSE data))

\* rawCall that returns the parsed body without decoding it.
rawCallSettle_NoDecode(res) ==
  LET parsed == IF res.body = Undefined THEN Throw(SyntaxError) ELSE JSON_parse(res.body)
  IN IF IsThrow(parsed) THEN parsed
     ELSE IF res.status # 200 THEN Throw(Error(statusText(res.status), {}))
     ELSE parsed

\* rawCall from the response on: what its promise settles with
rawCallSettle(res) ==
  LET parsed == IF res.body = Undefined THEN Throw(SyntaxError) ELSE JSON_parse(res.body)
      rData == IF IsThrow(parsed) THEN parsed ELSE autodecode(parsed)
  IN IF IsThrow(rData) THEN rData
     ELSE IF res.status # 200 THEN Throw(Error(statusText(res.status), {}))
     ELSE rData

\* ------------------------------------------------------------------ actions
InitCodecVars ==
  /\ cval = Null
  /\ cenc = None
  /\ cdec = None

InitCryptoVars ==
  /\ kenv = None
  /\ kseal = [from |-> "", to |-> ""]
  /\ kmod = "none"
  /\ kopen = None
  /\ kwith = [pk |-> "", sk |-> ""]

InitRpc ==
  /\ userID = Undefined
  /\ privateKey = Undefined
  /\ publicKey = Undefined
  /\ serverKey = Undefined
  /\ calls = [c \in Slots |-> InitCall]
  /\ req = [c \in Slots |-> None]
  /\ srv = [c \in Slots |-> InitServerRequest]
  /\ nonceCtr = 0

Init == InitCodecVars /\ InitCryptoVars /\ InitRpc

\* Calls take the slots in order.
Free(c) == calls[c].pc = "idle" /\ (IF c = 1 THEN TRUE ELSE calls[c - 1].pc # "idle")

\* TestClient.setKeys
setKeys(u, pub, priv, sk) ==
  /\ userID' = u
  /\ publicKey' = pub
  /\ privateKey' = priv
  /\ serverKey' = sk
  /\ UNCHANGED <<codecVars, cryptoVars, calls, req, srv, nonceCtr>>

\* logout that leaves the server's key in place.
logout_KeepsServerKey ==
  /\ userID' = Undefined
  /\ privateKey' = Undefined
  /\ publicKey' = Undefined
  /\ serverKey' = serverKey
  /\ UNCHANGED <<codecVars, cryptoVars, calls, req, srv, nonceCtr>>

logout ==
  /\ userID' = Undefined
  /\ privateKey' = Undefined
  /\ publicKey' = Undefined
  /\ serverKey' = Undefined
  /\ UNCHANGED <<codecVars, cryptoVars, calls, req, srv, nonceCtr>>

\* call(decl)(args)
call(c, args) ==
  /\ Free(c)
  /\ calls' = [calls EXCEPT ![c] = rawCallSend("call", args, args)]
  /\ req' = [req EXCEPT ![c] =
               IF calls'[c].sent = 1 THEN Request("Test", rawCallBody(args)) ELSE None]
  /\ UNCHANGED <<codecVars, cryptoVars, sessionVars, srv, nonceCtr>>

\* encryptedCall(decl)(args)
encryptedCall(c, args) ==
  /\ Free(c)
  /\ IF ~isloggedIn
       THEN /\ calls' = [calls EXCEPT ![c] =
                           [kind |-> "encryptedCall", pc |-> "rejected", args |-> args,
                            result |-> Throw(NotAuthenticated), sent |-> 0]]
            /\ UNCHANGED <<req, nonceCtr>>
       ELSE LET a == IF args = Undefined THEN Obj({}) ELSE args
                encryptedBody == encrypt(a, serverKey, privateKey, nonceCtr + 1)
                data == Obj({<<"payload", encryptedBody>>, <<"id", userID>>})
            IN /\ IF IsThrow(autoencode(a))
                    THEN UNCHANGED nonceCtr
                    ELSE nonceCtr < MaxNonce /\ nonceCtr' = nonceCtr + 1
               /\ IF IsThrow(encryptedBody)
                    THEN /\ calls' = [calls EXCEPT ![c] =
                                        [kind |-> "encryptedCall", pc |-> "rejected",
                                         args |-> args, result |-> encryptedBody, sent |-> 0]]
                         /\ UNCHANGED req
                    ELSE /\ calls' = [calls EXCEPT ![c] = rawCallSend("encryptedCall", args, data)]
                         /\ req' = [req EXCEPT ![c] = Request("TestEncrypted", rawCallBody(data))]
  /\ UNCHANGED <<codecVars, cryptoVars, sessionVars, srv>>

\* A client that sends the request once more when the answer is not a 200.
rawCallReturn_Retry(c) ==
  /\ calls[c].pc = "waiting"
  /\ srv[c].res # None
  /\ IF srv[c].res.v.status # 200 /\ calls[c].sent < 2
       THEN /\ calls' = [calls EXCEPT ![c].sent = @ + 1]
            /\ srv' = [srv EXCEPT ![c] = InitServerRequest]
       ELSE /\ LET rData == rawCallSettle(srv[c].res.v)
                   out == IF calls[c].kind = "encryptedCall" /\ ~IsThrow(rData)
                            THEN decrypt(rData, serverKey, privateKey)
                            ELSE rData
               IN calls' = [calls EXCEPT ![c].pc = IF IsThrow(out) THEN "rejected" ELSE "resolved",
                                         ![c].result = out]
            /\ UNCHANGED srv
  /\ UNCHANGED <<codecVars, cryptoVars, sessionVars, req, nonceCtr>>

\* A client that logs itself out when a call fails.
rawCallReturn_LogoutOnFail(c) ==
  /\ calls[c].pc = "waiting"
  /\ srv[c].res # None
  /\ LET rData == rawCallSettle(srv[c].res.v)
         out == IF calls[c].kind = "encryptedCall" /\ ~IsThrow(rData)
                  THEN decrypt(rData, serverKey, privateKey)
                  ELSE rData
     IN /\ calls' = [calls EXCEPT ![c].pc = IF IsThrow(out) THEN "rejected" ELSE "resolved",
                                  ![c].result = out]
        /\ IF IsThrow(out)
             THEN /\ userID' = Undefined
                  /\ privateKey' = Undefined
                  /\ publicKey' = Undefined
                  /\ serverKey' = Undefined
             ELSE UNCHANGED sessionVars
  /\ UNCHANGED <<codecVars, cryptoVars, req, srv, nonceCtr>>

\* The response reaches the client: rawCall settles, and encryptedCall opens
\* what it resolved with under the keys the client holds now.
rawCallReturn(c) ==
  /\ calls[c].pc = "waiting"
  /\ srv[c].res # None
  /\ LET rData == rawCallSettle(srv[c].res.v)
         out == IF calls[c].kind = "encryptedCall" /\ ~IsThrow(rData)
                  THEN decrypt(rData, serverKey, privateKey)
                  ELSE rData
     IN calls' = [calls EXCEPT ![c].pc = IF IsThrow(out) THEN "rejected" ELSE "resolved",
                               ![c].result = out]
  /\ UNCHANGED <<codecVars, cryptoVars, sessionVars, req, srv, nonceCtr>>

\* Any HTTP client can POST a body to a registered route.
post(c, route, body) ==
  /\ Free(c)
  /\ calls' = [calls EXCEPT ![c] =
                 [kind |-> "post", pc |-> "posted", args |-> None, result |-> None, sent |-> 1]]
  /\ req' = [req EXCEPT ![c] = Request(route, body)]
  /\ UNCHANGED <<codecVars, cryptoVars, sessionVars, srv, nonceCtr>>

\* The route's rate limiter runs before its callback: when the window's
\* budget is spent by the caller's other traffic it answers 429 itself and
\* the callback never runs.
limiter(c) ==
  /\ req[c] # None
  /\ srv[c].pc = "none"
  /\ srv' = [srv EXCEPT ![c] = [@ EXCEPT !.pc = "done", !.writes = 1, !.res = TooManyRequests]]
  /\ UNCHANGED <<codecVars, cryptoVars, sessionVars, calls, req, nonceCtr>>

\* handle's route callback runs up to `await fn(decodedBody)`
handle(c) ==
  /\ req[c] # None
  /\ req[c].v.route = "Test"
  /\ srv[c].pc = "none"
  /\ srv' = [srv EXCEPT ![c] = handleArrive(srv[c], req[c].v.body)]
  /\ UNCHANGED <<codecVars, cryptoVars, sessionVars, calls, req, nonceCtr>>

\* the unencrypted handler settles with out
handleFn(c, out) ==
  /\ req[c] # None
  /\ req[c].v.route = "Test"
  /\ srv[c].pc = "awaitFn"
  /\ srv' = [srv EXCEPT ![c] = handleSettle(srv[c], out)]
  /\ UNCHANGED <<codecVars, cryptoVars, sessionVars, calls, req, nonceCtr>>

\* encryptedHandle's route callback runs up to `await this.getUser(...)`
encryptedHandle(c) ==
  /\ req[c] # None
  /\ req[c].v.route = "TestEncrypted"
  /\ srv[c].pc = "none"
  /\ srv' = [srv EXCEPT ![c] = encryptedArrive(srv[c], req[c].v.body)]
  /\ UNCHANGED <<codecVars, cryptoVars, sessionVars, calls, req, nonceCtr>>

\* getUser settles; the callback runs on to `await fn(identity, decryptedPayload)`
encryptedHandleGetUser(c) ==
  /\ srv[c].pc = "awaitUser"
  /\ srv' = [srv EXCEPT ![c] = encryptedLookup(srv[c], getUser(Get(srv[c].decodedBody, "id")))]
  /\ UNCHANGED <<codecVars, cryptoVars, sessionVars, calls, req, nonceCtr>>

\* the encrypted handler settles with out
encryptedHandleFn(c, out) ==
  /\ req[c] # None
  /\ req[c].v.route = "TestEncrypted"
  /\ srv[c].pc = "awaitFn"
  /\ IF sealsOutput(srv[c], out)
       THEN nonceCtr < MaxNonce /\ nonceCtr' = nonceCtr + 1
       ELSE UNCHANGED nonceCtr
  /\ srv' = [srv EXCEPT ![c] = encryptedSettle(srv[c], out, nonceCtr + 1)]
  /\ UNCHANGED <<codecVars, cryptoVars, sessionVars, calls, req>>

Next ==
  \/ \E i \in SessionInputs : setKeys(i[1], i[2], i[3], i[4])
  \/ logout
  \/ \E c \in Slots, args \in CallArgs : call(c, args)
  \/ \E c \in Slots, args \in CallArgs : encryptedCall(c, args)
  \/ \E c \in Slots : rawCallReturn(c)
  \/ \E c \in Slots, route \in {"Test", "TestEncrypted"}, body \in RawBodies : post(c, route, body)
  \/ \E c \in Slots : limiter(c)
  \/ \E c \in Slots : handle(c)
  \/ \E c \in Slots, out \in HandlerOutcomes : handleFn(c, out)
  \/ \E c \in Slots : encryptedHandle(c)
  \/ \E c \in Slots : encryptedHandleGetUser(c)
  \/ \E c \in Slots, out \in HandlerOutcomes : encryptedHandleFn(c, out)

Spec == Init /\ [][Next]_vars

\* ---------------------------------------------------- session specification
\* One exchange at a time, with setKeys given what its signature asks for: a
\* user id and three keys.
PresentInputs == {i \in SessionInputs : \A f \in 1..4 : i[f] # Undefined}

NextSession ==
  \/ \E i \in PresentInputs : setKeys(i[1], i[2], i[3], i[4])
  \/ logout
  \/ \E args \in CallArgs : call(1, args)
  \/ \E args \in CallArgs : encryptedCall(1, args)
  \/ rawCallReturn(1)
  \/ limiter(1)
  \/ handle(1)
  \/ \E out \in HandlerOutcomes : handleFn(1, out)
  \/ encryptedHandle(1)
  \/ encryptedHandleGetUser(1)
  \/ \E out \in HandlerOutcomes : encryptedHandleFn(1, out)

SpecSession == Init /\ [][NextSession]_vars

\* ------------------------------------------------------ codec specification
\* The scalars the codec is run on: every supported kind, the empty buffer
\* and string, and plain strings that begin with a reserved tag.
Atoms ==
  { Null, Bool(TRUE), Bool(FALSE), Num(0), Num(7),
    Str(<<>>), Str(S(<<"o", "k">>)),
    Str(HexTag \o S(<<"0", "a">>)), Str(DateTag \o S(<<"x">>)),
    Bytes(<<>>), Bytes(<<[b |-> 0], [b |-> 171]>>), Bytes(<<[b |-> 255]>>),
    Date(0), Date(1500), Date(3599999),
    Arr(<<>>), Obj({}) }

RECURSIVE Depth(_)
Depth(x) ==
  CASE x.t = "arr" ->
         IF x.v = <<>> THEN 1
         ELSE 1 + (CHOOSE d \in 0..MaxDepth + 1 :
                     /\ \E i \in 1..Len(x.v) : Depth(x.v[i]) = d
                     /\ \A i \in 1..Len(x.v) : Depth(x.v[i]) <= d)
    [] x.t = "obj" ->
         IF x.v = {} THEN 1
         ELSE 1 + (CHOOSE d \in 0..MaxDepth + 1 :
                     /\ \E p \in x.v : Depth(p[2]) = d
                     /\ \A p \in x.v : Depth(p[2]) <= d)
    [] OTHER -> 0

\* One more level of nesting around x, or a sibling beside it.
Wrappings(x) ==
  { Arr(<<x>>), Arr(<<Null, x, Bytes(<<[b |-> 255]>>)>>),
    Obj({<<"k", x>>}), Obj({<<"k", x>>, <<"e", Date(1500)>>}) }

InitCodec ==
  /\ cval \in Atoms
  /\ cenc = None
  /\ cdec = None
  /\ InitCryptoVars
  /\ InitRpc

CodecNest ==
  /\ cenc = None
  /\ kenv = None
  /\ Depth(cval) < MaxDepth
  /\ \E w \in Wrappings(cval) : cval' = w
  /\ UNCHANGED <<cenc, cdec, cryptoVars, rpcVars>>

CodecEncode ==
  /\ cenc = None
  /\ cenc' = autoencode(cval)
  /\ UNCHANGED <<cval, cdec, cryptoVars, rpcVars>>

CodecDecode ==
  /\ cenc # None
  /\ ~IsThrow(cenc)
  /\ cdec = None
  /\ cdec' = autodecode(cenc)
  /\ UNCHANGED <<cval, cenc, cryptoVars, rpcVars>>

NextCodec == CodecNest \/ CodecEncode \/ CodecDecode

SpecCodec == InitCodec /\ [][NextCodec]_vars

\* ------------------------------------------------------- wire specification
\* autodecode run on what may arrive from the wire: JSON scalars, well-formed
\* tagged strings, and tagged strings whose remainder is not hex or not a
\* timestamp.
WireAtoms ==
  { Null, Bool(TRUE), Num(7), Str(S(<<"o", "k">>)),
    Str(HexTag), Str(HexTag \o S(<<"0", "a", "f", "f">>)),
    Str(HexTag \o S(<<"z", "z">>)), Str(HexTag \o S(<<"0", "a", "f">>)),
    Str(DateTag \o toISOString(1500)),
    Str(DateTag), Str(DateTag \o S(<<"s", "o", "o", "n">>)) }

WireWrappings(x) ==
  { Arr(<<x>>), Arr(<<Null, x>>),
    Obj({<<"k", x>>}), Obj({<<"k", x>>, <<"e", Str(S(<<"o", "k">>))>>}) }

InitWire ==
  /\ cval \in WireAtoms
  /\ cenc = None
  /\ cdec = None
  /\ InitCryptoVars
  /\ InitRpc

WireNest ==
  /\ cdec = None
  /\ Depth(cval) < MaxDepth
  /\ \E w \in WireWrappings(cval) : cval' = w
  /\ UNCHANGED <<cenc, cdec, cryptoVars, rpcVars>>

\* autodecode(cval)
WireDecode ==
  /\ cdec = None
  /\ cdec' = autodecode(cval)
  /\ UNCHANGED <<cval, cenc, cryptoVars, rpcVars>>

NextWire == WireNest \/ WireDecode

SpecWire == InitWire /\ [][NextWire]_vars

\* --------------------------------------------------- envelope specification
\* encrypt and decrypt, run on the values of the codec specification.
InitCrypto == InitCodec

\* Who seals to whom, and the keys an envelope is opened with.
Sealings == {<<UserKey, ServerKeyPair>>, <<ServerKeyPair, UserKey>>, <<OtherKey, ServerKeyPair>>}
OpenPublic == {UserKey, ServerKeyPair, OtherKey}
OpenSecret == {UserKey, ServerKeyPair}

\* What can happen to an envelope in transit.
tampered(env, how, rnd) ==
  CASE how = "cipher" ->
         Bytes([i \in 1..Len(env.v) |->
                  IF i > crypto_box_NONCEBYTES /\ IsCipherBlock(env.v[i])
                    THEN [c |-> [env.v[i].c EXCEPT !.ok = FALSE]]
                    ELSE env.v[i]])
    [] how = "nonce" ->
         Bytes(randombytes_buf(crypto_box_NONCEBYTES, rnd)
               \o SubSeq(env.v, crypto_box_NONCEBYTES + 1, Len(env.v)))
    [] how = "short" -> Bytes(SubSeq(env.v, 1, crypto_box_NONCEBYTES - 1))

CryptoSeal(from, to) ==
  /\ kenv = None
  /\ cenc = None
  /\ nonceCtr < MaxNonce
  /\ kenv' = encrypt(cval, PublicKey(to), SecretKey(from), nonceCtr + 1)
  /\ kseal' = [from |-> from, to |-> to]
  /\ nonceCtr' = nonceCtr + 1
  /\ UNCHANGED <<codecVars, kmod, kopen, kwith, sessionVars, calls, req, srv>>

CryptoTamper(how) ==
  /\ kenv # None
  /\ ~IsThrow(kenv)
  /\ kmod = "none"
  /\ kopen = None
  /\ kenv' = tampered(kenv, how, nonceCtr + 1)
  /\ kmod' = how
  /\ UNCHANGED <<codecVars, kseal, kopen, kwith, rpcVars>>

CryptoOpen(pk, sk) ==
  /\ kenv # None
  /\ ~IsThrow(kenv)
  /\ kopen = None
  /\ kopen' = decrypt(kenv, PublicKey(pk), SecretKey(sk))
  /\ kwith' = [pk |-> pk, sk |-> sk]
  /\ UNCHANGED <<codecVars, kenv, kseal, kmod, rpcVars>>

NextCrypto ==
  \/ CodecNest
  \/ \E p \in Sealings : CryptoSeal(p[1], p[2])
  \/ \E how \in {"cipher", "nonce", "short"} : CryptoTamper(how)
  \/ \E pk \in OpenPublic, sk \in OpenSecret : CryptoOpen(pk, sk)

SpecCrypto == InitCrypto /\ [][NextCrypto]_vars

\* ================================================================== claims
\* A value in which no plain string begins with a reserved tag.
RECURSIVE NoReservedTag(_)
NoReservedTag(x) ==
  CASE x.t = "str" -> ~startsWith(x.v, HexTag) /\ ~startsWith(x.v, DateTag)
    [] x.t = "arr" -> \A i \in 1..Len(x.v) : NoReservedTag(x.v[i])
    [] x.t = "obj" -> \A p \in x.v : NoReservedTag(p[2])
    [] OTHER -> TRUE

EncRoute(c) == req[c] # None /\ req[c].v.route = "TestEncrypted"

\* The request's plaintext id went to getUser and getUser rejected.
LookupFailed(c) ==
  /\ EncRoute(c)
  /\ srv[c].pc \in {"awaitFn", "done"}
  /\ srv[c].decodedBody # None
  /\ ~IsThrow(Get(srv[c].decodedBody, "id"))
  /\ IsThrow(getUser(Get(srv[c].decodedBody, "id")))

\* getUser resolved and the request's envelope did not open under the
\* resolved public key and the server's private key.
OpenFailed(c) ==
  /\ EncRoute(c)
  /\ srv[c].pc \in {"awaitFn", "done"}
  /\ srv[c].decodedBody # None
  /\ ~IsThrow(Get(srv[c].decodedBody, "id"))
  /\ ~IsThrow(getUser(Get(srv[c].decodedBody, "id")))
  /\ IsThrow(decrypt(Get(srv[c].decodedBody, "payload"),
                     getUser(Get(srv[c].decodedBody, "id")).v.publicKey, serverPrivateKey))

\* C1: when getUser fails for the request's id, the server answers 401 with
\* the fixed message and stops: the handler is not invoked, nothing else is
\* written, nothing is thrown.
C1_LookupFailureReturns ==
  \A c \in Slots :
    LookupFailed(c) =>
      /\ srv[c].res = Response(401, JSON_stringify(autoencode(NoSuchUser)))
      /\ srv[c].fnArgs = None
      /\ srv[c].writes = 1
      /\ srv[c].unhandled = None

\* C2: an encrypted call made while the client is not logged in is rejected
\* with NotAuthenticated and puts no request on the wire.
C2_NotLoggedInRejected ==
  [][\A c \in Slots :
       (/\ calls[c].pc = "idle"
        /\ calls'[c].kind = "encryptedCall"
        /\ \/ userID = Undefined
           \/ privateKey = Undefined
           \/ publicKey = Undefined
           \/ serverKey = Undefined)
       => /\ calls'[c].pc = "rejected"
          /\ calls'[c].result = Throw(NotAuthenticated)
          /\ calls'[c].sent = 0
          /\ req' = req]_vars

\* C2 witness: an encrypted call resolved, then the client logged out and the
\* next encrypted call was rejected without a request.
C2_Witness ==
  /\ calls[1].kind = "encryptedCall"
  /\ calls[1].pc = "resolved"
  /\ calls[2].kind = "encryptedCall"
  /\ calls[2].pc = "rejected"
  /\ calls[2].result = Throw(NotAuthenticated)
  /\ req[2] = None
  /\ userID = Undefined
  /\ serverKey = Undefined

\* C3 (as amended): autodecode(autoencode(v)) = v for every supported value v
\* in which no plain string begins with hex$ or date$.
C3_RoundTrip == (cdec # None /\ NoReservedTag(cval)) => cdec = cval

\* C3 witness: a nested value with buffers and dates came back equal.
C3_Witness ==
  /\ cdec # None
  /\ NoReservedTag(cval)
  /\ Depth(cval) >= 2
  /\ cenc # cval
  /\ cdec = cval

\* C3 as stated: the round trip returns v for every supported value v.
C3_Original == cdec # None => cdec = cval

SealedFor(pk, sk) == kmod = "none" /\ pk = kseal.from /\ sk = kseal.to

\* C4 (as amended): decrypt(encrypt(v, pkB, skA), pkA, skB) = v for every
\* value v in which no plain string begins with hex$ or date$.
C4_SealOpen ==
  (kopen # None /\ SealedFor(kwith.pk, kwith.sk) /\ NoReservedTag(cval)) => kopen = cval

\* C4 witness: a nested value was sealed, then opened by its recipient.
C4_Witness ==
  /\ kopen # None
  /\ SealedFor(kwith.pk, kwith.sk)
  /\ NoReservedTag(cval)
  /\ Depth(cval) >= 1
  /\ autoencode(cval) # cval
  /\ kopen = cval

\* C4 as stated: opening with the sender's public key and the recipient's
\* private key recovers v, for all values v.
C4_Original == (kopen # None /\ SealedFor(kwith.pk, kwith.sk)) => kopen = cval

\* C5: decrypt given the recipient's private key and a public key that is
\* not the sender's, or given a tampered envelope, throws: it returns no
\* value.
C5_OpenFails ==
  (/\ kopen # None
   /\ \/ kmod # "none"
      \/ kwith.sk = kseal.to /\ kwith.pk # kseal.from)
  => IsThrow(kopen)

\* C5 witness: an untouched envelope was opened with the wrong sender key.
C5_Witness ==
  /\ kopen # None
  /\ kmod = "none"
  /\ kwith.sk = kseal.to
  /\ kwith.pk # kseal.from
  /\ IsThrow(kopen)

\* C6: no exception leaves a route's callback: every failure ends in a 401 or
\* a 500 response.
C6_NothingEscapes ==
  \A c \in Slots :
    /\ srv[c].unhandled = None
    /\ srv[c].pc = "done" => srv[c].res # None

\* C7: when getUser resolves and the envelope does not open, the response is
\* a 500.
C7_OpenFailureIs500 ==
  \A c \in Slots :
    (OpenFailed(c) /\ srv[c].res # None) => srv[c].res.v.status = 500

\* C8: when the handler raises, the server answers 500 and the client's call
\* is rejected.
C8_HandlerErrorIs500 ==
  \A c \in Slots :
    (srv[c].pc = "done" /\ IsThrow(srv[c].fnOut)) =>
      /\ srv[c].res # None
      /\ srv[c].res.v.status = 500
      /\ calls[c].pc \in {"resolved", "rejected"} => calls[c].pc = "rejected"

\* C9: any two 500 responses carry the same body.
C9_GenericErrorBody ==
  \A c, d \in Slots :
    (/\ srv[c].res # None
     /\ srv[d].res # None
     /\ srv[c].res.v.status = 500
     /\ srv[d].res.v.status = 500)
    => srv[c].res.v.body = srv[d].res.v.body

\* The handler of an unencrypted call returned the value v.
Returned(c) ==
  /\ calls[c].kind = "call"
  /\ srv[c].pc = "done"
  /\ srv[c].fnOut \notin {None, Undefined}
  /\ ~IsThrow(srv[c].fnOut)

RoundTrips(c) ==
  /\ srv[c].res # None
  /\ srv[c].res.v.status = 200
  /\ calls[c].pc \in {"resolved", "rejected"} =>
       calls[c].pc = "resolved" /\ calls[c].result = srv[c].fnOut

\* C10 (as amended): an unencrypted call whose handler returns a value v in
\* which no plain string begins with hex$ or date$ gets a 200 and resolves
\* to v.
C10_CallRoundTrips ==
  \A c \in Slots : (Returned(c) /\ NoReservedTag(srv[c].fnOut)) => RoundTrips(c)

\* C10 witness: the handler returned true and the call resolved to true.
C10_Witness ==
  \E c \in Slots :
    /\ Returned(c)
    /\ srv[c].fnOut = Bool(TRUE)
    /\ srv[c].res.v.status = 200
    /\ calls[c].pc = "resolved"
    /\ calls[c].result = Bool(TRUE)

\* C10 as stated: the call resolves to v for every value v the handler returns.
C10_Original == \A c \in Slots : Returned(c) => RoundTrips(c)

\* What an encrypted call put on the wire: the plaintext id and the envelope.
RequestId(c) == Get(decodeBody(req[c].v.body), "id")
RequestEnvelope(c) == Get(decodeBody(req[c].v.body), "payload")

\* The sealed block of an envelope, which follows its nonce.
Block(env) == env.v[crypto_box_NONCEBYTES + 1].c
NonceOf(env) == SubSeq(env.v, 1, crypto_box_NONCEBYTES)

\* The call was made by a logged-in client whose keys match the record
\* getUser holds for its id.
Matching(c) ==
  /\ calls[c].kind = "encryptedCall"
  /\ req[c] # None
  /\ ~IsThrow(getUser(RequestId(c)))
  /\ Block(RequestEnvelope(c)).k = SharedKey(getUser(RequestId(c)).v.publicKey, serverPrivateKey)

\* The value encryptedCall sealed for its argument.
Sealed(c) == IF calls[c].args = Undefined THEN Obj({}) ELSE calls[c].args

\* The client holds the keys the call's envelopes are sealed under.
HoldsKeys(c) ==
  /\ IsPublicKey(serverKey)
  /\ IsSecretKey(privateKey)
  /\ SharedKey(serverKey, privateKey) = Block(RequestEnvelope(c)).k

\* The handler of call c returned a value.
HandlerReturned(c) ==
  /\ srv[c].pc = "done"
  /\ srv[c].fnOut \notin {None, Undefined}
  /\ ~IsThrow(srv[c].fnOut)

\* The handler of request c is invoked in this step.
Invoked(c) == srv[c].fnArgs = None /\ srv'[c].fnArgs # None

\* The client's promise for call c settles in this step.
Settles(c) == calls[c].pc = "waiting" /\ calls'[c].pc # "waiting"

SealedRequest(c) == calls[c].kind = "encryptedCall" /\ req[c] # None
SealedResponse(c) == EncRoute(c) /\ srv[c].res # None /\ srv[c].res.v.status = 200
ResponseEnvelope(c) == autodecode(JSON_parse(srv[c].res.v.body))
Wire ==
  {RequestEnvelope(c) : c \in {d \in Slots : SealedRequest(d)}}
    \cup {ResponseEnvelope(c) : c \in {d \in Slots : SealedResponse(d)}}

\* What an envelope opens to under the key pairs it was sealed between.
Opened(env) ==
  LET ids == Block(env).k
      x == CHOOSE i \in ids : TRUE
      y == CHOOSE j \in ids : ids = {x, j}
  IN decrypt(env, PublicKey(x), SecretKey(y))

\* Envelope e1 carries a nonce that no envelope of E carries, and when it is
\* sealed over the same value under the same keys as one of them, the two
\* differ and open to the same value.
Fresh(e1, E) ==
  \A e2 \in E :
    /\ NonceOf(e1) # NonceOf(e2)
    /\ (Block(e1).k = Block(e2).k /\ Block(e1).m = Block(e2).m) =>
         /\ e1 # e2
         /\ ~IsThrow(Opened(e1))
         /\ Opened(e1) = Opened(e2)

\* C12: every envelope that goes on the wire, a client's request or a
\* server's response, carries a nonce that no earlier envelope carries; sealed
\* over the same value under the same keys as an earlier one, it differs
\* from it and both open to the same value.
C12_FreshNonces ==
  [][\A c \in Slots :
       /\ (req[c] = None /\ req'[c] # None /\ calls'[c].kind = "encryptedCall") =>
            Fresh(Get(decodeBody(req'[c].v.body), "payload"), Wire)
       /\ (/\ EncRoute(c)
           /\ srv[c].res = None
           /\ srv'[c].res # None
           /\ srv'[c].res.v.status = 200) =>
            Fresh(autodecode(JSON_parse(srv'[c].res.v.body)), Wire)]_vars

\* C12 witness: the same client sealed the same argument twice, the two
\* requests differ, the server opened both to that argument, and a response
\* sealed under the same keys is on the wire as well.
C12_Witness ==
  /\ SealedRequest(1)
  /\ SealedRequest(2)
  /\ calls[1].args = Bool(TRUE)
  /\ calls[2].args = Bool(TRUE)
  /\ Block(RequestEnvelope(1)).k = Block(RequestEnvelope(2)).k
  /\ RequestEnvelope(1) # RequestEnvelope(2)
  /\ srv[1].fnArgs = FnArgs(TestUser, Bool(TRUE))
  /\ srv[2].fnArgs = FnArgs(TestUser, Bool(TRUE))
  /\ SealedResponse(1)
  /\ Block(ResponseEnvelope(1)).k = Block(RequestEnvelope(2)).k

\* The four fields of the Session State.
Session == <<userID, publicKey, privateKey, serverKey>>
FullyPresent == \A f \in 1..4 : Session[f] # Undefined
FullyAbsent == \A f \in 1..4 : Session[f] = Undefined

\* C13: in every reachable client state, isloggedIn is true exactly when all
\* four session fields are present.
C13_LoggedInIffPresent == isloggedIn <=> FullyPresent

\* C13 witness: a state with the user id missing and the three keys set, in
\* which isloggedIn is false and an encrypted call was turned away.
C13_Witness ==
  /\ userID = Undefined
  /\ publicKey # Undefined
  /\ privateKey # Undefined
  /\ serverKey # Undefined
  /\ ~isloggedIn
  /\ calls[1].kind = "encryptedCall"
  /\ calls[1].result = Throw(NotAuthenticated)

\* C14: with setKeys and logout as the only mutators, the Session State seen
\* between operations is fully present or fully absent, never partial.
C14_AllOrNothing == FullyPresent \/ FullyAbsent

\* C14 witness: absent at first, present while an encrypted call was made
\* and resolved, and absent again after logout.
C14_Witness ==
  /\ FullyAbsent
  /\ calls[1].kind = "encryptedCall"
  /\ calls[1].pc = "resolved"

\* The client's promise for call c has settled on the response of request c.
Answered(c) ==
  /\ calls[c].kind \in {"call", "encryptedCall"}
  /\ calls[c].pc \in {"resolved", "rejected"}
  /\ calls[c].sent = 1

\* C15: a call answered with a status other than 200 is rejected with an
\* error that carries the status's reason text, whatever the body.
C15_StatusRejects ==
  \A c \in Slots :
    (Answered(c) /\ srv[c].res.v.status # 200) =>
      /\ calls[c].pc = "rejected"
      /\ calls[c].result = Throw(Error(statusText(srv[c].res.v.status), {}))

\* A tagged string whose remainder is not hexadecimal, or not a timestamp.
MalformedHex(cs) ==
  /\ startsWith(cs, HexTag)
  /\ LET r == replacePrefix(cs, HexTag)
     IN Len(r) % 2 = 1 \/ \E i \in 1..Len(r) : ~IsHexDigit(r[i])
MalformedDate(cs) ==
  /\ ~startsWith(cs, HexTag)
  /\ startsWith(cs, DateTag)
  /\ newDate(replacePrefix(cs, DateTag)) = Date(InvalidTime)

RECURSIVE Malformed(_)
Malformed(x) ==
  CASE x.t = "str" -> MalformedHex(x.v) \/ MalformedDate(x.v)
    [] x.t = "arr" -> \E i \in 1..Len(x.v) : Malformed(x.v[i])
    [] x.t = "obj" -> \E p \in x.v : Malformed(p[2])
    [] OTHER -> FALSE

\* C16: autodecode of a wire value that holds a malformed tagged string
\* throws: it never returns a value.
C16_MalformedThrows == (cdec # None /\ Malformed(cval)) => IsThrow(cdec)

\* Call c was made through call or encryptedCall.
Called(c) == calls[c].kind \in {"call", "encryptedCall"}

\* encryptedCall turned call c away at its login check.
TurnedAway(c) ==
  calls[c].kind = "encryptedCall" /\ calls[c].result = Throw(NotAuthenticated)

\* C17 (as amended): an invocation of call or encryptedCall issues at most
\* one HTTP request: exactly one when it passes the login check and its
\* argument can be encoded, none otherwise.
C17_AtMostOneRequest ==
  \A c \in Slots :
    Called(c) =>
      /\ calls[c].sent <= 1
      /\ calls[c].sent = 0 <=> req[c] = None
      /\ calls[c].sent =
           IF TurnedAway(c) \/ IsThrow(autoencode(Sealed(c))) THEN 0 ELSE 1

\* C17 witness: one call was answered with a failure status and rejected
\* after its single request, and an encrypted call made while logged out
\* issued none.
C17_Witness ==
  /\ Called(1)
  /\ calls[1].pc = "rejected"
  /\ calls[1].sent = 1
  /\ srv[1].res # None
  /\ srv[1].res.v.status # 200
  /\ TurnedAway(2)
  /\ calls[2].sent = 0
  /\ req[2] = None

\* C17 as stated: exactly one request whenever the login check is passed.
C17_Original ==
  \A c \in Slots :
    Called(c) =>
      /\ calls[c].sent <= 1
      /\ calls[c].sent = 0 <=> req[c] = None
      /\ calls[c].sent = IF TurnedAway(c) THEN 0 ELSE 1

\* C18: no step of call or encryptedCall, from the invocation to the
\* settling of its promise, changes a field of the Session State.
C18_CallsKeepSession ==
  [][calls' # calls =>
       /\ userID' = userID
       /\ publicKey' = publicKey
       /\ privateKey' = privateKey
       /\ serverKey' = serverKey]_vars

\* C18 witness: with one encrypted call still in flight a second call was
\* sent, answered and rejected, and the client is logged in as before.
C18_Witness ==
  /\ calls[1].kind = "encryptedCall"
  /\ calls[1].pc = "waiting"
  /\ Called(2)
  /\ calls[2].pc = "rejected"
  /\ calls[2].sent = 1
  /\ userID = TestId
  /\ FullyPresent

\* The first response of request c is written in this step, and it is a 200.
Answers200(c) ==
  /\ srv[c].res = None
  /\ srv'[c].res # None
  /\ srv'[c].res.v.status = 200

\* C19: whatever the interleaving of requests, the handler of an encrypted
\* request whose id getUser resolves is given the record of that id, and a
\* 200 response is sealed to that record's public key.
C19_OwnIdentity ==
  [][\A c \in Slots :
       EncRoute(c) =>
         /\ (Invoked(c) /\ ~IsThrow(getUser(RequestId(c)))) =>
              srv'[c].fnArgs.v.identity = getUser(RequestId(c))
         /\ Answers200(c) =>
              /\ ~IsThrow(getUser(RequestId(c)))
              /\ Block(autodecode(JSON_parse(srv'[c].res.v.body))).k =
                   SharedKey(getUser(RequestId(c)).v.publicKey, serverPrivateKey)]_vars

\* C19 witness: while the first request, from user test, is suspended in
\* getUser, the second, from user bob, has run to completion: its handler was
\* given bob's record and its response is sealed to bob's key.
C19_Witness ==
  /\ EncRoute(1)
  /\ RequestId(1) = TestId
  /\ srv[1].pc = "awaitUser"
  /\ EncRoute(2)
  /\ RequestId(2) = SecondId
  /\ srv[2].pc = "done"
  /\ SealedResponse(2)
  /\ srv[2].fnArgs = FnArgs(SecondUser, Bool(TRUE))
  /\ Block(ResponseEnvelope(2)).k = SharedKey(SecondUser.v.publicKey, serverPrivateKey)

\* The plaintext of the empty object.
EmptyObject == JSON_stringify(autoencode(Obj({})))

\* An encrypted call goes on the wire in this step.
Sends(c) == req[c] = None /\ req'[c] # None /\ calls'[c].kind = "encryptedCall"

\* The handler of an encrypted request with a resolved identity and no
\* response yet returns nothing in this step.
ReturnsVoid(c) ==
  /\ EncRoute(c)
  /\ srv[c].pc = "awaitFn"
  /\ srv[c].identity # Undefined
  /\ srv[c].res = None
  /\ srv'[c].pc = "done"
  /\ srv'[c].fnOut = Undefined

\* C20: on encrypted calls an absent value is replaced by {} before sealing:
\* an undefined input is sealed as {} and the handler receives {}; an
\* undefined handler result is sealed as {} and the call resolves to {}; every
\* envelope is sealed over a JSON text.
C20_VoidIsEmptyObject ==
  [][\A c \in Slots :
       /\ Sends(c) =>
            LET m == Block(Get(decodeBody(req'[c].v.body), "payload")).m
            IN m.t = "json" /\ (calls'[c].args = Undefined => m = EmptyObject)
       /\ (Invoked(c) /\ calls[c].args = Undefined /\ Matching(c)) =>
            srv'[c].fnArgs.v.input = Obj({})
       /\ ReturnsVoid(c) =>
            /\ srv'[c].res # None
            /\ srv'[c].res.v.status = 200
            /\ Block(autodecode(JSON_parse(srv'[c].res.v.body))).m = EmptyObject
       /\ (EncRoute(c) /\ Answers200(c)) =>
            Block(autodecode(JSON_parse(srv'[c].res.v.body))).m.t = "json"
       /\ (/\ Settles(c)
           /\ srv[c].pc = "done"
           /\ srv[c].fnOut = Undefined
           /\ Matching(c)
           /\ HoldsKeys(c))
          => /\ calls'[c].pc = "resolved"
             /\ calls'[c].result = Obj({})]_vars

\* C20 witness: an encrypted call without an argument reached a handler that
\* received {} and returned nothing, and the call resolved to {}.
C20_Witness ==
  \E c \in Slots :
    /\ Matching(c)
    /\ calls[c].args = Undefined
    /\ srv[c].fnArgs = FnArgs(TestUser, Obj({}))
    /\ srv[c].fnOut = Undefined
    /\ Block(ResponseEnvelope(c)).m = EmptyObject
    /\ calls[c].pc = "resolved"
    /\ calls[c].result = Obj({})

\* The route's callback ran for request c: the limiter let it through.
Accepted(c) == srv[c].pc # "none" /\ srv[c].res # TooManyRequests

\* C21: a request accepted by a route gets exactly one response: one status
\* of 200, 401 and 500 is written, and no second response is attempted.
C21_ExactlyOneResponse ==
  \A c \in Slots :
    Accepted(c) =>
      /\ srv[c].writes <= 1
      /\ srv[c].pc = "done" =>
           /\ srv[c].writes = 1
           /\ srv[c].res # None
           /\ srv[c].res.v.status \in {200, 401, 500}

\* C22: whenever an encrypted handler is invoked, its identity is the record
\* getUser returned for the request's id and its input is what the request's
\* envelope opened to under that record's public key and the server's
\* private key.
C22_AuthenticatedInput ==
  \A c \in Slots :
    (EncRoute(c) /\ srv[c].fnArgs # None) =>
      /\ srv[c].decodedBody # None
      /\ ~IsThrow(Get(srv[c].decodedBody, "id"))
      /\ ~IsThrow(getUser(Get(srv[c].decodedBody, "id")))
      /\ srv[c].fnArgs.v.identity = getUser(Get(srv[c].decodedBody, "id"))
      /\ ~IsThrow(decrypt(Get(srv[c].decodedBody, "payload"),
                          srv[c].fnArgs.v.identity.v.publicKey, serverPrivateKey))
      /\ srv[c].fnArgs.v.input =
           decrypt(Get(srv[c].decodedBody, "payload"),
                   srv[c].fnArgs.v.identity.v.publicKey, serverPrivateKey)

\* C23: an encrypted call that was sent and answered 200 opens the response
\* under the keys it sealed its request with, whatever logout or setKeys did
\* in between, and resolves to the handler's result.
C23_OpensWithSealingKeys ==
  [][\A c \in Slots :
       (/\ Settles(c)
        /\ calls[c].kind = "encryptedCall"
        /\ srv[c].res.v.status = 200
        /\ HandlerReturned(c)
        /\ NoReservedTag(srv[c].fnOut))
       => /\ HoldsKeys(c)
          /\ calls'[c].pc = "resolved"
          /\ calls'[c].result = srv[c].fnOut]_vars

====
